---- MODULE Spec2Model ----
(***************************************************************************)
(* Credit ledger of the Mockly backend (src/app/credits.py).               *)
(*                                                                         *)
(* The committed database state is the User.credits column of every user   *)
(* row and the table of UserCreditTransaction rows.  Every call of         *)
(* deduct_credits / add_credits runs in a database session of its own      *)
(* (src/app/database.py, get_async_session) as an asyncio task: the task   *)
(* gives up control at every `await`, so the calls interleave between      *)
(* their SELECTs and their commit.  A SELECT reads the state committed at  *)
(* that moment; session.commit() flushes the UPDATE of user.credits (the   *)
(* value computed in Python from the row the session loaded) and the       *)
(* INSERT of the transaction row in one database transaction.              *)
(***************************************************************************)
EXTENDS Integers, Sequences, FiniteSets, TLC

\* ---------------------------------------------------------------- bounds
\* Number of calls (requests) in one behaviour.
MaxReqs == 2
\* Largest amount a caller passes; the smallest is -1 (amount is any int).
MaxAmount == 2
\* Largest balance an account holds before the first call.
MaxInit == 2
\* Largest value of the database clock.
MaxClock == 1

Reqs == 1..MaxReqs
Amounts == (-1)..MaxAmount

\* User ids that have a row in the user table, and one that has none.
Accounts == {"u1"}
NoAccount == "u0"
UserIds == Accounts \cup {NoAccount}

\* transaction_type values add_credits is called with (purchase_credits,
\* refund_credits) and the default of deduct_credits.
CreditTypes == {"purchase", "refund"}
DebitType == "session_start"

VARIABLES
  credits,   \* credits[u]: committed User.credits of the row of user u
  log,       \* committed UserCreditTransaction rows, in commit order
  opening,   \* credits[u] when the log was empty (never changes)
  pc,        \* pc[r]: where call r is: idle, load, commit, done
  op,        \* op[r]: "deduct" or "add" ("none" while idle)
  uid,       \* uid[r]: the user_id argument
  amt,       \* amt[r]: the amount argument
  ttype,     \* ttype[r]: the transaction_type argument
  seen,      \* seen[r]: user.credits of the User object the session loaded
  result,    \* result[r]: none, True, False, raised (commit failed), cancelled
  records,   \* committed UserProgress rows, in commit order
  stats,     \* stats[u]: <<>> or <<the committed UserStats row of user u>>
  nrec,      \* nrec[r]: how many UserProgress rows update_user_stats read
  got,       \* got[r]: <<>> or <<the UserStats object the session holds>>
  created,   \* created[i]: created_at of the transaction row log[i]
  clock,     \* the database clock that created_at is taken from
  reader     \* the GET /credits/transactions request: its arguments,
             \* where it is, and what it has read

vars == <<credits, log, opening, pc, op, uid, amt, ttype, seen, result,
          records, stats, nrec, got, created, clock, reader>>

\* The progress and statistics tables and the locals of the calls on them.
statvars == <<records, stats, nrec, got>>

\* The ledger tables and the locals of the calls on them.
ledgervars == <<credits, log, opening, amt, ttype, seen, created, clock,
                reader>>

\* -------------------------------------------------------------- helpers
\* A select that reads a missing user as a row with balance 0.
SelectCreditsMissingAsZero(u) ==
  IF u \in DOMAIN credits THEN <<credits[u]>> ELSE <<0>>

\* select(User.credits).where(User.id == user_id) ... scalar_one_or_none():
\* the sequence <<credits>> of the row, or <<>> for None.
SelectCredits(u) == IF u \in DOMAIN credits THEN <<credits[u]>> ELSE <<>>

\* check_user_credits with the comparison off by one.
CheckUserCreditsOffByOne(u, required) ==
  LET user_credits == SelectCredits(u)
  IN  IF user_credits = <<>> THEN FALSE ELSE user_credits[1] + 1 >= required

\* check_user_credits with a strict comparison.
CheckUserCreditsStrict(u, required) ==
  LET user_credits == SelectCredits(u)
  IN  IF user_credits = <<>> THEN FALSE ELSE user_credits[1] > required

\* check_user_credits: False when there is no row, else credits >= required.
CheckUserCredits(u, required) ==
  LET user_credits == SelectCredits(u)
  IN  IF user_credits = <<>> THEN FALSE ELSE user_credits[1] >= required

\* A transaction row whose snapshot is taken before the balance is changed.
TransactionSnapshotBefore(u, t, change, after) ==
  [user_id |-> u, transaction_type |-> t,
   credits_change |-> change, credits_balance_after |-> after - change]

\* The UserCreditTransaction row a call builds.
Transaction(u, t, change, after) ==
  [user_id |-> u, transaction_type |-> t,
   credits_change |-> change, credits_balance_after |-> after]

\* user.credits -= amount, as computed from the loaded object.
DeductNew(loaded, amount) == loaded - amount

\* user.credits += amount, as computed from the loaded object.
AddNew(loaded, amount) == loaded + amount

\* Calls are numbered in the order in which they start.
MayStart(r) == pc[r] = "idle" /\ \A q \in Reqs : q < r => pc[q] # "idle"

\* The call returns (or raises): its session is closed, and the User object
\* it loaded and its transaction_type argument go with it.
Finish(r, res) ==
  /\ pc' = [pc EXCEPT ![r] = "done"]
  /\ result' = [result EXCEPT ![r] = res]
  /\ seen' = [seen EXCEPT ![r] = 0]
  /\ ttype' = [ttype EXCEPT ![r] = "none"]

\* No GET /credits/transactions request has been made.
NoReader ==
  [pc |-> "idle", user |-> NoAccount, limit |-> 0, offset |-> 0,
   total |-> 0, page |-> <<>>]

\* ------------------------------------------------------------------ Init
Init ==
  /\ credits \in [Accounts -> 0..MaxInit]
  /\ opening = credits
  /\ log = <<>>
  /\ pc = [r \in Reqs |-> "idle"]
  /\ op = [r \in Reqs |-> "none"]
  /\ uid = [r \in Reqs |-> NoAccount]
  /\ amt = [r \in Reqs |-> 0]
  /\ ttype = [r \in Reqs |-> "none"]
  /\ seen = [r \in Reqs |-> 0]
  /\ result = [r \in Reqs |-> "none"]
  /\ records = <<>>
  /\ stats = [u \in Accounts |-> <<>>]
  /\ nrec = [r \in Reqs |-> 0]
  /\ got = [r \in Reqs |-> <<>>]
  /\ created = <<>>
  /\ clock = 0
  /\ reader = NoReader

\* --------------------------------------------------------------- actions
\* deduct_credits is called and runs to its first await result: the
\* sufficiency check of lines 48-50.
DeductCheck(r, u, a) ==
  /\ MayStart(r)
  /\ op' = [op EXCEPT ![r] = "deduct"]
  /\ uid' = [uid EXCEPT ![r] = u]
  /\ amt' = [amt EXCEPT ![r] = a]
  /\ IF CheckUserCredits(u, a)
       THEN /\ pc' = [pc EXCEPT ![r] = "load"]
            /\ ttype' = [ttype EXCEPT ![r] = DebitType]
            /\ UNCHANGED <<result, seen>>
       ELSE Finish(r, "False")
  /\ UNCHANGED <<credits, log, created, opening, clock, reader>>
  /\ UNCHANGED statvars

\* deduct_credits lines 52-58: select(User), a second read of the row.
DeductLoad(r) ==
  /\ pc[r] = "load"
  /\ op[r] = "deduct"
  /\ IF uid[r] \in DOMAIN credits
       THEN /\ seen' = [seen EXCEPT ![r] = credits[uid[r]]]
            /\ pc' = [pc EXCEPT ![r] = "commit"]
            /\ UNCHANGED <<result, ttype>>
       ELSE Finish(r, "False")
  /\ UNCHANGED <<credits, log, created, opening, clock, reader, op, uid, amt>>
  /\ UNCHANGED statvars

\* A debit whose UPDATE has no WHERE clause.
DeductCommitEveryUser(r) ==
  /\ pc[r] = "commit"
  /\ op[r] = "deduct"
  /\ LET new == DeductNew(seen[r], amt[r])
     IN  /\ credits' = [u \in DOMAIN credits |-> new]
         /\ log' = Append(log, Transaction(uid[r], ttype[r], -amt[r], new))
         /\ created' = Append(created, clock)
  /\ Finish(r, "True")
  /\ UNCHANGED <<opening, clock, reader, op, uid, amt>>
  /\ UNCHANGED statvars

\* deduct_credits lines 60-77: the decrement, the transaction row, commit.
DeductCommit(r) ==
  /\ pc[r] = "commit"
  /\ op[r] = "deduct"
  /\ LET new == DeductNew(seen[r], amt[r])
     IN  /\ credits' = [credits EXCEPT ![uid[r]] = new]
         /\ log' = Append(log, Transaction(uid[r], ttype[r], -amt[r], new))
         /\ created' = Append(created, clock)
  /\ Finish(r, "True")
  /\ UNCHANGED <<opening, clock, reader, op, uid, amt>>
  /\ UNCHANGED statvars

\* add_credits is called and runs lines 91-97: select(User).
AddLoad(r, u, a, t) ==
  /\ MayStart(r)
  /\ op' = [op EXCEPT ![r] = "add"]
  /\ uid' = [uid EXCEPT ![r] = u]
  /\ amt' = [amt EXCEPT ![r] = a]
  /\ IF u \in DOMAIN credits
       THEN /\ seen' = [seen EXCEPT ![r] = credits[u]]
            /\ pc' = [pc EXCEPT ![r] = "commit"]
            /\ ttype' = [ttype EXCEPT ![r] = t]
            /\ UNCHANGED result
       ELSE Finish(r, "False")
  /\ UNCHANGED <<credits, log, created, opening, clock, reader>>
  /\ UNCHANGED statvars

\* add_credits lines 99-116: the increment, the transaction row, commit.
AddCommit(r) ==
  /\ pc[r] = "commit"
  /\ op[r] = "add"
  /\ LET new == AddNew(seen[r], amt[r])
     IN  /\ credits' = [credits EXCEPT ![uid[r]] = new]
         /\ log' = Append(log, Transaction(uid[r], ttype[r], amt[r], new))
         /\ created' = Append(created, clock)
  /\ Finish(r, "True")
  /\ UNCHANGED <<opening, clock, reader, op, uid, amt>>
  /\ UNCHANGED statvars

\* A failing commit that leaves the UPDATE of user.credits applied and the
\* INSERT of the transaction row not.
CommitFailsHalfApplied(r) ==
  /\ pc[r] = "commit"
  /\ credits' = [credits EXCEPT ![uid[r]] =
                    IF op[r] = "deduct" THEN DeductNew(seen[r], amt[r])
                                        ELSE AddNew(seen[r], amt[r])]
  /\ Finish(r, "raised")
  /\ UNCHANGED <<log, created, opening, clock, reader, op, uid, amt>>
  /\ UNCHANGED statvars

\* session.commit() raises (lines 75, 114): the database transaction is not
\* committed, the exception leaves the call, the session is closed.
CommitFails(r) ==
  /\ pc[r] = "commit"
  /\ Finish(r, "raised")
  /\ UNCHANGED <<credits, log, created, opening, clock, reader, op, uid, amt>>
  /\ UNCHANGED statvars

\* A cancellation that takes the newest committed transaction back.
CancelUndoesLast(r) ==
  /\ pc[r] \in {"load", "commit"}
  /\ log' = IF log = <<>> THEN log ELSE SubSeq(log, 1, Len(log) - 1)
  /\ created' = IF log = <<>> THEN created
                ELSE SubSeq(created, 1, Len(created) - 1)
  /\ Finish(r, "cancelled")
  /\ UNCHANGED <<credits, opening, clock, reader, op, uid, amt>>
  /\ UNCHANGED statvars

\* The request's task is cancelled while the call waits at an await.
Cancel(r) ==
  /\ pc[r] \in {"load", "commit"}
  /\ Finish(r, "cancelled")
  /\ UNCHANGED <<credits, log, created, opening, clock, reader, op, uid, amt>>
  /\ UNCHANGED statvars

Next ==
  \/ \E r \in Reqs, u \in UserIds, a \in Amounts : DeductCheck(r, u, a)
  \/ \E r \in Reqs : DeductLoad(r)
  \/ \E r \in Reqs : DeductCommit(r)
  \/ \E r \in Reqs, u \in UserIds, a \in Amounts, t \in CreditTypes :
       AddLoad(r, u, a, t)
  \/ \E r \in Reqs : AddCommit(r)
  \/ \E r \in Reqs : CommitFails(r)
  \/ \E r \in Reqs : Cancel(r)

Spec == Init /\ [][Next]_vars

\* ------------------------------------------------- reading the ledger back
\* The transactions of user u (select ... where user_id == u), oldest first
\* in commit order.
UserLog(u) == SelectSeq(log, LAMBDA t : t.user_id = u)

RECURSIVE SumChanges(_)
SumChanges(s) ==
  IF s = <<>> THEN 0 ELSE s[1].credits_change + SumChanges(Tail(s))

LastOf(s) == s[Len(s)]

Started == {r \in Reqs : pc[r] # "idle"}

\* ------------------------------------------------------------------ claims
\* C1: in every committed state the balance of an account equals its
\* opening balance plus the sum of the credits_change values of its log,
\* whatever debits and credits ran and however they interleaved.  (Stated
\* for calls with positive amounts, which every caller may make.)
C1_BalanceIsSumOfLog ==
  (\A r \in Started : amt[r] > 0) =>
    \A u \in Accounts : credits[u] = opening[u] + SumChanges(UserLog(u))

\* C2: two concurrent deduct_credits(amount = 1) calls, the only calls made,
\* on an account whose balance is 1: once both have returned, exactly one
\* returned True and the other False; never both True.
C2_OneOfTwoDebitsSucceeds ==
  \A r1, r2 \in Reqs :
    ( /\ r1 # r2
      /\ Started = {r1, r2}
      /\ op[r1] = "deduct" /\ op[r2] = "deduct"
      /\ amt[r1] = 1 /\ amt[r2] = 1
      /\ uid[r1] \in Accounts /\ uid[r2] = uid[r1]
      /\ opening[uid[r1]] = 1
      /\ result[r1] \in {"True", "False"}
      /\ result[r2] \in {"True", "False"} )
    => ( /\ "True" \in {result[r1], result[r2]}
         /\ "False" \in {result[r1], result[r2]} )

\* C3: when every debit and credit made so far has a positive amount (and
\* the account started non-negative), the committed balance is >= 0.
C3_BalanceNeverNegative ==
  (\A r \in Started : amt[r] > 0) => \A u \in Accounts : credits[u] >= 0

\* C4: a deduct_credits call whose amount is greater than the balance of
\* the account when it is made returns False in that step, and the
\* balance and the log are as they were.
C4_InsufficientDebitHasNoEffect ==
  [][\A r \in Reqs :
       ( /\ pc[r] = "idle" /\ pc'[r] # "idle"
         /\ op'[r] = "deduct"
         /\ uid'[r] \in Accounts
         /\ amt'[r] > credits[uid'[r]] )
       => ( /\ pc'[r] = "done"
            /\ result'[r] = "False"
            /\ credits' = credits
            /\ log' = log )]_vars

\* A debit of more than the balance has returned False.
C4_Witness ==
  \E r \in Reqs :
    /\ op[r] = "deduct" /\ result[r] = "False"
    /\ uid[r] \in Accounts
    /\ log = <<>>
    /\ amt[r] > credits[uid[r]]

\* C5: no step of an add_credits call whose amount is <= 0 changes the
\* balance or the log, and such a call never returns True.
C5_NonPositiveCreditRejected ==
  [][\A r \in Reqs :
       (op'[r] = "add" /\ amt'[r] <= 0 /\ pc'[r] # pc[r])
       => (credits' = credits /\ log' = log /\ result'[r] # "True")]_vars

\* C6: the balance write and the transaction row become visible in the same
\* step or not at all: the log only grows by one row, at the end, in the
\* step in which a call returns True, and then the balance of that user is
\* the row's credits_balance_after; the balance changes in no other step;
\* a call that returns False, raises or is cancelled changes neither.
C6_BalanceAndTransactionAtomic ==
  [][ /\ (log' # log =>
            /\ Len(log') = Len(log) + 1
            /\ SubSeq(log', 1, Len(log)) = log
            /\ \E r \in Reqs :
                 /\ pc[r] = "commit" /\ result'[r] = "True"
                 /\ LastOf(log').user_id = uid[r]
                 /\ credits' = [credits EXCEPT ![uid[r]] =
                                  LastOf(log').credits_balance_after])
      /\ (credits' # credits => log' # log)
      /\ \A r \in Reqs :
           (result[r] = "none" /\ result'[r] \in {"False", "raised", "cancelled"})
           => (credits' = credits /\ log' = log)
      /\ \A r \in Reqs :
           (result[r] = "none" /\ result'[r] = "True")
           => (log' # log /\ LastOf(log').user_id = uid[r])
    ]_vars

\* One call's commit has failed and another call has committed.
C6_Witness ==
  \E r, q \in Reqs :
    /\ result[r] = "raised" /\ uid[r] \in Accounts
    /\ result[q] = "True"
    /\ Len(log) = 1

C8_LogIsPrefixSum ==
  (\A r \in Started : amt[r] > 0) =>
    \A u \in Accounts :
      \A i \in 1..Len(UserLog(u)) :
        UserLog(u)[i].credits_balance_after =
          (IF i = 1 THEN opening[u]
                    ELSE UserLog(u)[i - 1].credits_balance_after)
          + UserLog(u)[i].credits_change

\* C9: the step in which a deduct_credits call of amount a > 0 returns True on
\* an account of balance b >= a (all calls made so far having positive
\* amounts) sets the balance to b - a and appends
\* exactly one transaction, with credits_change = -a, balance_after = b - a.
C9_DebitSetsBalance ==
  [][\A r \in Reqs :
       ( /\ op[r] = "deduct" /\ result[r] = "none" /\ result'[r] = "True"
         /\ \A q \in Started : amt[q] > 0
         /\ credits[uid[r]] >= amt[r] )
       => ( /\ credits' = [credits EXCEPT ![uid[r]] = credits[uid[r]] - amt[r]]
            /\ log' = Append(log,
                 [user_id |-> uid[r], transaction_type |-> DebitType,
                  credits_change |-> -amt[r],
                  credits_balance_after |-> credits[uid[r]] - amt[r]]) )]_vars

\* C10: the step in which an add_credits call of a positive amount a
\* returns True on an account of balance b (all calls made so far having
\* positive amounts) sets the balance to b + a and
\* appends exactly one transaction, with credits_change = a, balance_after
\* = b + a and the transaction type the call was given.
C10_CreditSetsBalance ==
  [][\A r \in Reqs :
       ( /\ op[r] = "add" /\ result[r] = "none" /\ result'[r] = "True"
         /\ \A q \in Started : amt[q] > 0 )
       => ( /\ credits' = [credits EXCEPT ![uid[r]] = credits[uid[r]] + amt[r]]
            /\ log' = Append(log,
                 [user_id |-> uid[r], transaction_type |-> ttype[r],
                  credits_change |-> amt[r],
                  credits_balance_after |-> credits[uid[r]] + amt[r]]) )]_vars

\* ------------------------------------------------------- credit endpoints
\* The amount test of purchase_credits and refund_credits that lets zero in.
InvalidAmountNegativeOnly(a) == a < 0

\* purchase_credits line 168, refund_credits line 213: amount <= 0.
InvalidAmount(a) == a <= 0

\* POST /credits/purchase and POST /credits/refund for the authenticated
\* user u: HTTP 400 for an invalid amount, else add_credits is called with
\* the endpoint's transaction type and runs its select(User).  The call
\* goes on with AddCommit (or CommitFails, Cancel); True is answered with
\* the refreshed balance, which reads and writes nothing else.
CreditEndpoint(r, u, a, t) ==
  /\ MayStart(r)
  /\ uid' = [uid EXCEPT ![r] = u]
  /\ amt' = [amt EXCEPT ![r] = a]
  /\ IF InvalidAmount(a)
       THEN /\ op' = [op EXCEPT ![r] = t]
            /\ Finish(r, "400")
       ELSE /\ op' = [op EXCEPT ![r] = "add"]
            /\ seen' = [seen EXCEPT ![r] = credits[u]]
            /\ pc' = [pc EXCEPT ![r] = "commit"]
            /\ ttype' = [ttype EXCEPT ![r] = t]
            /\ UNCHANGED result
  /\ UNCHANGED <<credits, log, created, opening, clock, reader>>
  /\ UNCHANGED statvars

PurchaseCredits(r, u, a) == CreditEndpoint(r, u, a, "purchase")

RefundCredits(r, u, a) == CreditEndpoint(r, u, a, "refund")

\* check_user_credits called on its own (validate_credits_for_session):
\* one SELECT, the answer, nothing written.
CheckCredits(r, u, required) ==
  /\ MayStart(r)
  /\ op' = [op EXCEPT ![r] = "authorize"]
  /\ uid' = [uid EXCEPT ![r] = u]
  /\ amt' = [amt EXCEPT ![r] = required]
  /\ Finish(r, IF CheckUserCredits(u, required) THEN "True" ELSE "False")
  /\ UNCHANGED <<credits, log, created, opening, clock, reader>>
  /\ UNCHANGED statvars

NextEndpoints ==
  \/ \E r \in Reqs, u \in Accounts, a \in Amounts : PurchaseCredits(r, u, a)
  \/ \E r \in Reqs, u \in Accounts, a \in Amounts : RefundCredits(r, u, a)
  \/ \E r \in Reqs, u \in UserIds, a \in Amounts : CheckCredits(r, u, a)
  \/ \E r \in Reqs : AddCommit(r)
  \/ \E r \in Reqs : CommitFails(r)
  \/ \E r \in Reqs : Cancel(r)

SpecEndpoints == Init /\ [][NextEndpoints]_vars

\* C11: a purchase or refund request whose amount is <= 0 is answered with
\* HTTP 400 in the step in which it arrives: add_credits is not called, and
\* the balance and the log are as they were.
C11_EndpointsRejectNonPositive ==
  [][\A r \in Reqs :
       ( /\ pc[r] = "idle" /\ pc'[r] # "idle"
         /\ op'[r] \in {"purchase", "refund", "add"}
         /\ amt'[r] <= 0 )
       => ( /\ op'[r] \in {"purchase", "refund"}
            /\ pc'[r] = "done"
            /\ result'[r] = "400"
            /\ credits' = credits
            /\ log' = log )]_vars

\* A purchase of a non-positive amount has been answered with 400 while
\* another request's credit was committed.
C11_Witness ==
  \E r, q \in Reqs :
    /\ op[r] = "purchase" /\ amt[r] <= 0 /\ result[r] = "400"
    /\ op[q] = "add" /\ result[q] = "True"

\* C12: a check_user_credits call answers True exactly when the user has a
\* row whose balance is >= required, and False otherwise, and its step
\* changes neither a balance nor the log.
C12_AuthorizeIsReadOnly ==
  [][\A r \in Reqs :
       (pc[r] = "idle" /\ op'[r] = "authorize")
       => ( /\ credits' = credits
            /\ log' = log
            /\ pc'[r] = "done"
            /\ result'[r] \in {"True", "False"}
            /\ (result'[r] = "True") <=>
                 (uid'[r] \in Accounts /\ credits[uid'[r]] >= amt'[r]) )]_vars

\* Two checks were answered, one True and one False, the first for exactly
\* the balance.
C12_Witness ==
  \E r, q \in Reqs :
    /\ op[r] = "authorize" /\ result[r] = "True"
    /\ uid[r] \in Accounts /\ amt[r] = credits[uid[r]]
    /\ op[q] = "authorize" /\ result[q] = "False"

\* C20: the log is append-only: every step keeps every committed
\* transaction in its place with its fields unchanged.
C20_LogAppendOnly ==
  [][ /\ Len(log') >= Len(log)
      /\ \A i \in 1..Len(log) : log'[i] = log[i] ]_vars

\* A transaction is committed and, with it in the log, another call was
\* cancelled or failed to commit.
C20_Witness ==
  \E r, q \in Reqs :
    /\ result[r] = "True" /\ Len(log) = 1
    /\ result[q] \in {"cancelled", "raised", "False"}

\* ------------------------------------------------- progress and statistics
\* Scores are Python floats; the model computes with exact fractions
\* <<numerator, denominator>> in lowest terms (3.5 is <<7, 2>>, 4.2 is
\* <<21, 5>>).  None is Null.  A session_date is the position of the commit
\* that stored the record (server_default now()); the None date is 0.
Null == <<0, 0>>

S35 == <<7, 2>>

S40 == <<4, 1>>

S42 == <<21, 5>>

Scores == {Null, S35, S40, S42}

RECURSIVE GCD(_, _)
GCD(a, b) == IF b = 0 THEN a ELSE GCD(b, a % b)

Rat(n, d) == LET g == GCD(n, d) IN <<n \div g, d \div g>>

RatAdd(x, y) == Rat(x[1] * y[2] + y[1] * x[2], x[2] * y[2])

RatDivInt(x, k) == Rat(x[1], x[2] * k)

RatLeq(x, y) == x[1] * y[2] <= y[1] * x[2]

\* sum(...) of a list of scores.
RECURSIVE RatSum(_)
RatSum(s) == IF s = <<>> THEN <<0, 1>> ELSE RatAdd(s[1], RatSum(Tail(s)))

\* max(...) of a non-empty list of scores.
RECURSIVE RatMax(_)
RatMax(s) ==
  IF Len(s) = 1 THEN s[1]
  ELSE LET m == RatMax(Tail(s)) IN IF RatLeq(m, s[1]) THEN s[1] ELSE m

\* [x for x in ... if x is not None]
NotNone(s) == SelectSeq(s, LAMBDA x : x # Null)

\* sum(xs) / len(xs) if xs else None
Mean(s) ==
  LET xs == NotNone(s)
  IN  IF xs = <<>> THEN Null ELSE RatDivInt(RatSum(xs), Len(xs))

\* An overall score that divides by the number of components.
OverallScoreOverThree(content, voice, face) ==
  LET valid_scores == NotNone(<<content, voice, face>>)
  IN  IF valid_scores = <<>> THEN Null ELSE RatDivInt(RatSum(valid_scores), 3)

\* create_progress_record lines 55-60.
OverallScore(content, voice, face) ==
  LET valid_scores == NotNone(<<content, voice, face>>)
  IN  IF valid_scores = <<>> THEN Null
      ELSE RatDivInt(RatSum(valid_scores), Len(valid_scores))

\* The UserProgress row a commit stores.
ProgressRecord(u, content, voice, face, overall) ==
  [ user_id       |-> u,
    content_score |-> content,
    voice_score   |-> voice,
    face_score    |-> face,
    overall_score |-> overall,
    session_date  |-> Len(records) + 1 ]

Recorders == {"record", "background"}

\* POST /users/progress up to its first commit: the overall score is
\* computed, the record is added and committed.  The call goes on with
\* update_user_stats in the same session.
CreateProgressRecord(r, u, content, voice, face) ==
  /\ MayStart(r)
  /\ op' = [op EXCEPT ![r] = "record"]
  /\ uid' = [uid EXCEPT ![r] = u]
  /\ records' = Append(records,
       ProgressRecord(u, content, voice, face,
                      OverallScore(content, voice, face)))
  /\ pc' = [pc EXCEPT ![r] = "progress"]
  /\ UNCHANGED <<stats, nrec, got, result>>
  /\ UNCHANGED ledgervars

\* A background saver of /score-session or /comprehensive-analysis up to its
\* first commit: content_score is the 3.5 of get_basic_response, voice and
\* face come from the request's metrics, and no overall_score is passed to
\* UserProgress.  It goes on with update_user_stats in the same session.
SaveProgressBackground(r, u, voice, face) ==
  /\ MayStart(r)
  /\ op' = [op EXCEPT ![r] = "background"]
  /\ uid' = [uid EXCEPT ![r] = u]
  /\ records' = Append(records, ProgressRecord(u, S35, voice, face, Null))
  /\ pc' = [pc EXCEPT ![r] = "progress"]
  /\ UNCHANGED <<stats, nrec, got, result>>
  /\ UNCHANGED ledgervars

\* UserStats(user_id=u) with the column defaults of models.py.
DefaultStats(u) ==
  [ user_id               |-> u,
    total_sessions        |-> 0,
    average_content_score |-> Null,
    average_voice_score   |-> Null,
    average_face_score    |-> Null,
    average_overall_score |-> Null,
    best_overall_score    |-> Null,
    most_recent_session   |-> 0,
    streak_days           |-> 0 ]

\* The attributes update_user_stats assigns.
StatsFields ==
  { "total_sessions", "average_content_score", "average_voice_score",
    "average_face_score", "average_overall_score", "best_overall_score",
    "most_recent_session" }

\* select(UserProgress).where(user_id == u) over the first n committed rows.
ProgressOf(u, n) ==
  SelectSeq(SubSeq(records, 1, n), LAMBDA p : p.user_id = u)

Column(ps, f) == [i \in 1..Len(ps) |-> ps[i][f]]

\* update_user_stats lines 171-184, for a non-empty list of records.
Aggregate(ps) ==
  LET overall_scores == NotNone(Column(ps, "overall_score"))
      dates == {ps[i].session_date : i \in 1..Len(ps)}
  IN  [ total_sessions        |-> Len(ps),
        average_content_score |-> Mean(Column(ps, "content_score")),
        average_voice_score   |-> Mean(Column(ps, "voice_score")),
        average_face_score    |-> Mean(Column(ps, "face_score")),
        average_overall_score |-> Mean(Column(ps, "overall_score")),
        best_overall_score    |->
          IF overall_scores = <<>> THEN Null ELSE RatMax(overall_scores),
        most_recent_session   |->
          CHOOSE d \in dates : \A e \in dates : e <= d ]

\* An update that counts the session on top of the loaded row.
NewStatsIncremental(u, loaded, ps) ==
  LET base == IF loaded = <<>> THEN DefaultStats(u) ELSE loaded[1]
      agg  == Aggregate(ps)
  IN  [f \in DOMAIN base |->
         IF f = "total_sessions" /\ loaded # <<>>
           THEN base.total_sessions + 1
           ELSE IF f \in StatsFields THEN agg[f] ELSE base[f]]

\* update_user_stats lines 191-202: the loaded UserStats object, or a new
\* one, with the aggregates assigned.
NewStats(u, loaded, ps) ==
  LET base == IF loaded = <<>> THEN DefaultStats(u) ELSE loaded[1]
      agg  == Aggregate(ps)
  IN  [f \in DOMAIN base |-> IF f \in StatsFields THEN agg[f] ELSE base[f]]

\* How a recorder ends when update_user_stats raises: the endpoint lets the
\* exception out, the background saver prints it and rolls back.
Failure(r) == IF op[r] = "background" THEN "swallowed" ELSE "raised"

\* A recorder's call is over: its session and the objects in it are gone.
FinishStats(r, res) ==
  /\ Finish(r, res)
  /\ got' = [got EXCEPT ![r] = <<>>]

\* update_user_stats lines 163-168: the SELECT of the user's records, and
\* the early return when there are none.
ReadProgress(r) ==
  /\ pc[r] = "progress"
  /\ nrec' = [nrec EXCEPT ![r] = Len(records)]
  /\ IF ProgressOf(uid[r], Len(records)) = <<>>
       THEN FinishStats(r, "ok")
       ELSE /\ pc' = [pc EXCEPT ![r] = "stats"]
            /\ UNCHANGED <<result, seen, ttype, got>>
  /\ UNCHANGED <<credits, log, created, opening, clock, reader, amt, op, uid, records, stats>>

\* update_user_stats lines 187-189: the SELECT of the UserStats row.
ReadStats(r) ==
  /\ pc[r] = "stats"
  /\ got' = [got EXCEPT ![r] = stats[uid[r]]]
  /\ pc' = [pc EXCEPT ![r] = "write"]
  /\ UNCHANGED <<credits, log, created, opening, clock, reader, amt, op, uid, records, stats, nrec,
                 result, seen, ttype>>

\* update_user_stats lines 191-204: the assignments and the commit.  A new
\* object is INSERTed, and the unique user_id refuses it when a row was
\* committed since the SELECT; a loaded object is UPDATEd in the columns
\* whose assigned value differs from the loaded one.
StatsCommit(r) ==
  /\ pc[r] = "write"
  /\ LET u   == uid[r]
         new == NewStats(u, got[r], ProgressOf(u, nrec[r]))
     IN  IF got[r] = <<>>
           THEN IF stats[u] = <<>>
                  THEN /\ stats' = [stats EXCEPT ![u] = <<new>>]
                       /\ FinishStats(r, "ok")
                  ELSE /\ FinishStats(r, Failure(r))
                       /\ UNCHANGED stats
           ELSE /\ stats' = [stats EXCEPT ![u] =
                       <<[f \in DOMAIN new |->
                            IF new[f] # got[r][1][f] THEN new[f]
                            ELSE stats[u][1][f]]>>]
                /\ FinishStats(r, "ok")
  /\ UNCHANGED <<credits, log, created, opening, clock, reader, amt, op, uid, records, nrec>>

\* A failure handling that takes the saved record back.
StatsFailsRecordLost(r) ==
  /\ pc[r] \in {"progress", "stats", "write"}
  /\ op[r] \in Recorders
  /\ FinishStats(r, Failure(r))
  /\ records' = SubSeq(records, 1, Len(records) - 1)
  /\ UNCHANGED <<credits, log, created, opening, clock, reader, amt, op, uid, stats, nrec>>

\* A statement of update_user_stats fails in storage: nothing of the call
\* is written; session.rollback() of the background saver has no
\* uncommitted change of the record to undo.
StatsFails(r) ==
  /\ pc[r] \in {"progress", "stats", "write"}
  /\ op[r] \in Recorders
  /\ FinishStats(r, Failure(r))
  /\ UNCHANGED <<credits, log, created, opening, clock, reader, amt, op, uid, records, stats, nrec>>

\* GET /users/stats lines 110-113: the SELECT; an existing row is returned.
GetStatsSelect(r, u) ==
  /\ MayStart(r)
  /\ op' = [op EXCEPT ![r] = "get_stats"]
  /\ uid' = [uid EXCEPT ![r] = u]
  /\ got' = [got EXCEPT ![r] = stats[u]]
  /\ IF stats[u] # <<>>
       THEN Finish(r, "row")
       ELSE /\ pc' = [pc EXCEPT ![r] = "insert"]
            /\ UNCHANGED <<result, seen, ttype>>
  /\ UNCHANGED <<credits, log, created, opening, clock, reader, amt, records, stats, nrec>>

\* GET /users/stats lines 115-119: the INSERT of the initial row, refused by
\* the unique user_id when a row was committed since the SELECT.
GetStatsInsert(r) ==
  /\ pc[r] = "insert"
  /\ IF stats[uid[r]] = <<>>
       THEN /\ stats' = [stats EXCEPT ![uid[r]] = <<DefaultStats(uid[r])>>]
            /\ got' = [got EXCEPT ![r] = <<DefaultStats(uid[r])>>]
            /\ Finish(r, "row")
       ELSE /\ Finish(r, "raised")
            /\ UNCHANGED <<stats, got>>
  /\ UNCHANGED <<credits, log, created, opening, clock, reader, amt, op, uid, records, nrec>>

\* The score triples of the recordings that run concurrently.
RaceInputs == {<<S35, Null, Null>>, <<S40, S35, S42>>}

NextStats ==
  \/ \E r \in Reqs, u \in Accounts, i \in RaceInputs :
       CreateProgressRecord(r, u, i[1], i[2], i[3])
  \/ \E r \in Reqs, u \in Accounts : SaveProgressBackground(r, u, S35, S42)
  \/ \E r \in Reqs : ReadProgress(r)
  \/ \E r \in Reqs : ReadStats(r)
  \/ \E r \in Reqs : StatsCommit(r)
  \/ \E r \in Reqs : StatsFails(r)
  \/ \E r \in Reqs, u \in Accounts : GetStatsSelect(r, u)
  \/ \E r \in Reqs : GetStatsInsert(r)

SpecStats == Init /\ [][NextStats]_vars

\* One POST /users/progress at a time, with every triple of scores.
NextScore ==
  \/ \E u \in Accounts, content \in Scores, voice \in Scores, face \in Scores :
       CreateProgressRecord(1, u, content, voice, face)
  \/ ReadProgress(1)
  \/ ReadStats(1)
  \/ StatsCommit(1)

SpecScore == Init /\ [][NextScore]_vars

\* A score as numerator and denominator, None counting as zero.
Numer(x) == IF x = Null THEN 0 ELSE x[1]

Denom(x) == IF x = Null THEN 1 ELSE x[2]

Present(x) == IF x = Null THEN 0 ELSE 1

\* C15: every record stored by create_progress_record has the mean of its
\* non-null content, voice and face scores as overall_score, and a null
\* overall_score when all three are null; a lone 3.5 gives 3.5, and 4.0, 3.5
\* and 4.2 give 3.9.
C15_OverallIsMeanOfNonNull ==
  \A i \in 1..Len(records) :
    LET p == records[i]
        c == p.content_score
        v == p.voice_score
        f == p.face_score
        k == Present(c) + Present(v) + Present(f)
        total == Numer(c) * Denom(v) * Denom(f)
                   + Numer(v) * Denom(c) * Denom(f)
                   + Numer(f) * Denom(c) * Denom(v)
        over == Denom(c) * Denom(v) * Denom(f)
    IN  /\ k = 0 => p.overall_score = Null
        /\ k > 0 =>
             /\ p.overall_score # Null
             /\ p.overall_score[1] * over * k = total * p.overall_score[2]
             /\ GCD(p.overall_score[1], p.overall_score[2]) = 1
        /\ (c = S35 /\ v = Null /\ f = Null) => p.overall_score = <<7, 2>>
        /\ (c = S40 /\ v = S35 /\ f = S42) => p.overall_score = <<39, 10>>

\* The record with scores 4.0, 3.5 and 4.2 is stored with overall 3.9 and
\* the stats of its user are computed from it.
C15_Witness ==
  /\ Len(records) = 1
  /\ records[1].content_score = S40
  /\ records[1].voice_score = S35
  /\ records[1].face_score = S42
  /\ records[1].overall_score = <<39, 10>>
  /\ result[1] = "ok"

\* A call that is started and not yet over runs on: asyncio resumes a task
\* whose awaited statement has completed.
FairSpecStats ==
  /\ SpecStats
  /\ \A r \in Reqs :
       WF_vars(ReadProgress(r) \/ ReadStats(r) \/ StatsCommit(r)
                 \/ GetStatsInsert(r))

\* All committed records of u.
History(u) == ProgressOf(u, Len(records))

\* The UserStats row of u has the aggregates of all committed records of u.
Agree(u) ==
  /\ stats[u] # <<>>
  /\ History(u) # <<>>
  /\ \A f \in StatsFields : stats[u][1][f] = Aggregate(History(u))[f]

\* The step is the successful commit of r's update_user_stats.
StatsCommitted(r) ==
  /\ pc[r] = "write" /\ pc'[r] = "done"
  /\ op[r] \in Recorders /\ result'[r] = "ok"

NoFailure == \A q \in Reqs : result[q] \notin {"raised", "swallowed"}

\* C13: a run of update_user_stats that commits when the UserStats row
\* already holds the aggregates of the records the run has read (the row a
\* run over the same records left) changes nothing in UserStats.
C13_RecomputeIdempotent ==
  [][\A r \in Reqs :
       ( /\ StatsCommitted(r)
         /\ stats[uid[r]] # <<>>
         /\ \A f \in StatsFields :
              stats[uid[r]][1][f]
                = Aggregate(ProgressOf(uid[r], nrec[r]))[f] )
       => stats' = stats]_vars

\* Two runs of update_user_stats have committed, both over the same two
\* records, and the row holds their aggregates.
C13_Witness ==
  \E r, q \in Reqs :
    /\ r # q
    /\ op[r] \in Recorders /\ op[q] \in Recorders
    /\ result[r] = "ok" /\ result[q] = "ok"
    /\ nrec[r] = Len(records) /\ nrec[q] = Len(records)
    /\ Len(records) > 1
    /\ Agree(uid[r])

\* C14: when a run of update_user_stats commits, with no other call in
\* flight and no call having failed, the user's UserStats has the aggregates
\* of the user's whole record history.
C14_StatsEqualAggregateAfterRecompute ==
  [][\A r \in Reqs :
       ( /\ StatsCommitted(r)
         /\ NoFailure
         /\ \A q \in Reqs \ {r} : pc[q] \in {"idle", "done"} )
       => Agree(uid[r])']_vars

\* C16: once every recording that was started has completed without error,
\* the user's UserStats has the aggregates of all committed records, and
\* total_sessions is their number.
C16_ConcurrentRecordingsAgree ==
  ( /\ \E r \in Reqs : pc[r] # "idle"
    /\ \A r \in Reqs :
         pc[r] # "idle"
         => (op[r] \in Recorders /\ pc[r] = "done" /\ result[r] = "ok") )
  => \A u \in Accounts :
       /\ Agree(u)
       /\ stats[u][1].total_sessions = Len(History(u))

\* A recording's update_user_stats has failed after its record was
\* committed.
RecomputeFailed ==
  \E r \in Reqs :
    op[r] \in Recorders /\ result[r] \in {"raised", "swallowed"}

\* C17: from a state in which a recomputation has failed and UserStats
\* disagrees with the committed records, UserStats eventually agrees with
\* them.
C17_FailedRecomputeReconciled ==
  \A u \in Accounts :
    (RecomputeFailed /\ History(u) # <<>> /\ ~Agree(u)) ~> Agree(u)

\* C18: no step removes or alters a committed ProgressRecord, the failure
\* of update_user_stats on either recording path included.
C18_RecordSurvivesStatsFailure ==
  [][\A i \in 1..Len(records) :
       i <= Len(records') /\ records'[i] = records[i]]_vars

\* update_user_stats has failed on both paths, in the endpoint and in a
\* background saver, and both records are committed.
C18_Witness ==
  \E r, q \in Reqs :
    /\ op[r] = "record" /\ result[r] = "raised"
    /\ op[q] = "background" /\ result[q] = "swallowed"
    /\ Len(records) = 2

\* C19: while the user has no ProgressRecord, every get_user_stats call
\* that is over has returned a row with total_sessions 0 and null averages.
C19_EmptyUserGetsZeroStats ==
  \A r \in Reqs :
    (op[r] = "get_stats" /\ pc[r] = "done" /\ History(uid[r]) = <<>>)
    => /\ result[r] = "row"
       /\ got[r] # <<>>
       /\ got[r][1].total_sessions = 0
       /\ got[r][1].average_content_score = Null
       /\ got[r][1].average_voice_score = Null
       /\ got[r][1].average_face_score = Null
       /\ got[r][1].average_overall_score = Null

\* C21: when update_user_stats fails after the record of a POST
\* /users/progress was committed, the request still ends successfully with
\* the created record.
C21_StatsFailureDoesNotBlockRecording ==
  [][\A r \in Reqs :
       ( /\ op[r] = "record"
         /\ pc[r] \in {"progress", "stats", "write"}
         /\ pc'[r] = "done" )
       => result'[r] = "ok"]_vars

\* update_user_stats(u, session) called on its own, in a session that holds
\* no object yet: the call starts at its first SELECT.
UpdateUserStats(r, u) ==
  /\ MayStart(r)
  /\ op' = [op EXCEPT ![r] = "recompute"]
  /\ uid' = [uid EXCEPT ![r] = u]
  /\ pc' = [pc EXCEPT ![r] = "progress"]
  /\ UNCHANGED <<result, records, stats, nrec, got>>
  /\ UNCHANGED ledgervars

NextRecompute ==
  \/ \E r \in Reqs, u \in Accounts : UpdateUserStats(r, u)
  \/ \E r \in Reqs, u \in Accounts, i \in RaceInputs :
       CreateProgressRecord(r, u, i[1], i[2], i[3])
  \/ \E r \in Reqs : ReadProgress(r)
  \/ \E r \in Reqs : ReadStats(r)
  \/ \E r \in Reqs : StatsCommit(r)

SpecRecompute == Init /\ [][NextRecompute]_vars

\* C22: when a call of update_user_stats returns, a UserStats row exists
\* for the user, and for a user without ProgressRecords the row has
\* total_sessions 0 and null averages.
C22_RecomputeUpserts ==
  [][\A r \in Reqs :
       ( /\ op[r] = "recompute"
         /\ pc[r] # "done" /\ pc'[r] = "done"
         /\ result'[r] = "ok" )
       => /\ stats'[uid[r]] # <<>>
          /\ History(uid[r])' = <<>>
               => /\ stats'[uid[r]][1].total_sessions = 0
                  /\ stats'[uid[r]][1].average_content_score = Null
                  /\ stats'[uid[r]][1].average_voice_score = Null
                  /\ stats'[uid[r]][1].average_face_score = Null
                  /\ stats'[uid[r]][1].average_overall_score = Null]_vars

\* The scoring endpoints beside the credit operations: score_session_api and
\* comprehensive_analysis_api start their background saver without calling
\* validate_credits_for_session or deduct_credits.
NextSession ==
  \/ \E r \in Reqs, u \in Accounts : SaveProgressBackground(r, u, S35, S42)
  \/ \E r \in Reqs : ReadProgress(r)
  \/ \E r \in Reqs : ReadStats(r)
  \/ \E r \in Reqs : StatsCommit(r)
  \/ \E r \in Reqs, u \in Accounts, a \in Amounts : CheckCredits(r, u, a)
  \/ \E r \in Reqs, u \in Accounts, a \in Amounts : DeductCheck(r, u, a)
  \/ \E r \in Reqs : DeductLoad(r)
  \/ \E r \in Reqs : DeductCommit(r)

SpecSession == Init /\ [][NextSession]_vars

\* C23: whenever a scoring endpoint has written a ProgressRecord for a
\* user, a debit of that user is already committed in the ledger.
C23_RecordPrecededByDebit ==
  \A r \in Reqs :
    (op[r] = "background" /\ pc[r] # "idle")
    => \E i \in 1..Len(log) :
         /\ log[i].user_id = uid[r]
         /\ log[i].transaction_type = DebitType

\* ------------------------------------------------- listing the transactions
\* UserCreditTransaction.id is the position of the row in commit order.
TransactionIds(u) == {i \in 1..Len(log) : log[i].user_id = u}

\* The results the database may give for
\* select(...).where(user_id == u).order_by(desc(created_at)): every
\* arrangement of the user's rows in which created_at does not increase;
\* rows with equal created_at come in any order.
Orderings(u) ==
  LET ids == TransactionIds(u)
      n   == Cardinality(ids)
  IN  { s \in [1..n -> ids] :
          /\ \A j, k \in 1..n : j # k => s[j] # s[k]
          /\ \A j, k \in 1..n : j < k => created[s[j]] >= created[s[k]] }

\* .offset(offset).limit(limit) of a result.
Slice(s, offset, limit) ==
  SubSeq(s, offset + 1,
         IF offset + limit < Len(s) THEN offset + limit ELSE Len(s))

Limits == {1, 2}

Offsets == {0, 1}

callvars == <<pc, op, uid, amt, ttype, seen, result>>

\* The database clock advances.
Tick ==
  /\ clock < MaxClock
  /\ clock' = clock + 1
  /\ UNCHANGED <<credits, log, opening, created, reader>>
  /\ UNCHANGED callvars
  /\ UNCHANGED statvars

\* get_credit_transactions lines 138-143: the count query.
ListCount(u, limit, offset) ==
  /\ reader.pc = "idle"
  /\ reader' = [pc |-> "page", user |-> u, limit |-> limit,
                offset |-> offset,
                total |-> Cardinality(TransactionIds(u)), page |-> <<>>]
  /\ UNCHANGED <<credits, log, opening, created, clock>>
  /\ UNCHANGED callvars
  /\ UNCHANGED statvars

\* get_credit_transactions lines 145-156: the page query and the response.
\* The page is the sequence of the ids of its rows.
ListPage ==
  /\ reader.pc = "page"
  /\ \E s \in Orderings(reader.user) :
       reader' = [reader EXCEPT !.pc = "done",
                    !.page = Slice(s, reader.offset, reader.limit)]
  /\ UNCHANGED <<credits, log, opening, created, clock>>
  /\ UNCHANGED callvars
  /\ UNCHANGED statvars

NextList ==
  \/ \E r \in Reqs, u \in Accounts, a \in 1..MaxAmount, t \in CreditTypes :
       AddLoad(r, u, a, t)
  \/ \E r \in Reqs : AddCommit(r)
  \/ Tick
  \/ \E u \in Accounts, limit \in Limits, offset \in Offsets :
       ListCount(u, limit, offset)
  \/ ListPage

SpecList == Init /\ [][NextList]_vars

\* The user's transaction ids newest first by created_at, ties by id
\* descending.
NewestFirst(u) ==
  CHOOSE s \in Orderings(u) :
    \A j, k \in 1..Len(s) :
      (j < k /\ created[s[j]] = created[s[k]]) => s[j] > s[k]

\* C24: the page get_credit_transactions returns for (limit, offset) is
\* the slice of the user's transactions ordered newest first by created_at
\* with ties by id descending, and total_transactions is the number of the
\* user's transactions when it is counted.
C24_PageNewestFirstTiesById ==
  [][ /\ (reader.pc = "page" /\ reader'.pc = "done")
        => reader'.page
             = Slice(NewestFirst(reader.user), reader.offset, reader.limit)
      /\ (reader.pc = "idle" /\ reader'.pc = "page")
        => reader'.total = Len(UserLog(reader'.user)) ]_vars

\* C25: every committed ProgressRecord with a non-null content, voice or
\* face score has a non-null overall_score, the mean of its non-null
\* component scores, whether the endpoint or a background saver stored it.
C25_EveryRecordHasOverall ==
  \A i \in 1..Len(records) :
    LET p == records[i]
        components == <<p.content_score, p.voice_score, p.face_score>>
    IN  NotNone(components) # <<>>
        => /\ p.overall_score # Null
           /\ p.overall_score = Mean(components)

\* C26: no step of a deduct_credits call with amount <= 0, running with no
\* other call started, raises the balance or appends a transaction with a
\* positive credits_change.
C26_NonPositiveDebitNeverCredits ==
  [][\A r \in Reqs :
       ( /\ op'[r] = "deduct" /\ amt'[r] <= 0
         /\ pc'[r] # pc[r]
         /\ \A q \in Reqs \ {r} : pc[q] = "idle" )
       => /\ \A u \in Accounts : credits'[u] <= credits[u]
          /\ Len(log') > Len(log)
               => log'[Len(log')].credits_change <= 0]_vars

\* Reads and recordings with no storage failure: the only error left is the
\* refusal of a second UserStats row for a user.
NextCreate ==
  \/ \E r \in Reqs, u \in Accounts, i \in RaceInputs :
       CreateProgressRecord(r, u, i[1], i[2], i[3])
  \/ \E r \in Reqs, u \in Accounts : SaveProgressBackground(r, u, S35, S42)
  \/ \E r \in Reqs : ReadProgress(r)
  \/ \E r \in Reqs : ReadStats(r)
  \/ \E r \in Reqs : StatsCommit(r)
  \/ \E r \in Reqs, u \in Accounts : GetStatsSelect(r, u)
  \/ \E r \in Reqs : GetStatsInsert(r)

SpecCreate == Init /\ [][NextCreate]_vars

\* C27: of the get_user_stats and update_user_stats calls that run for a
\* user, concurrently or not, none fails, and once all of them are over the
\* user has a UserStats row.
C27_ConcurrentCreationNeverFails ==
  /\ \A r \in Reqs : pc[r] = "done" => result[r] \in {"ok", "row"}
  /\ \A u \in Accounts :
       ( /\ \E r \in Reqs : pc[r] = "done" /\ uid[r] = u
         /\ \A r \in Reqs : pc[r] \in {"idle", "done"} )
       => stats[u] # <<>>

\* The three credit operations, for users with and without a row.
NextGuard ==
  \/ \E r \in Reqs, u \in UserIds, a \in Amounts : CheckCredits(r, u, a)
  \/ \E r \in Reqs, u \in UserIds, a \in Amounts : DeductCheck(r, u, a)
  \/ \E r \in Reqs : DeductLoad(r)
  \/ \E r \in Reqs : DeductCommit(r)
  \/ \E r \in Reqs, u \in UserIds, a \in Amounts, t \in CreditTypes :
       AddLoad(r, u, a, t)
  \/ \E r \in Reqs : AddCommit(r)

SpecGuard == Init /\ [][NextGuard]_vars

\* C28: a check_user_credits, deduct_credits or add_credits call for a
\* user_id without a row returns False in the step in which it is made;
\* no account is created, no balance changes and no transaction is
\* appended.
C28_NoAccountReturnsFalse ==
  [][\A r \in Reqs :
       ( /\ pc[r] = "idle" /\ pc'[r] # "idle"
         /\ uid'[r] = NoAccount
         /\ op'[r] \in {"authorize", "deduct", "add"} )
       => /\ pc'[r] = "done"
          /\ result'[r] = "False"
          /\ DOMAIN credits' = Accounts
          /\ credits' = credits
          /\ log' = log]_vars

\* A debit and a credit for the user without a row have returned False.
C28_Witness ==
  \E r, q \in Reqs :
    /\ op[r] = "deduct" /\ uid[r] = NoAccount /\ result[r] = "False"
    /\ amt[r] <= 0
    /\ op[q] = "add" /\ uid[q] = NoAccount /\ result[q] = "False"
    /\ log = <<>>

\* ------------------------------------------------------------- two users
\* A database with the rows of two users.
TwoUsers == {"u1", "u2"}

InitTwoUsers ==
  /\ credits \in [TwoUsers -> 0..MaxInit]
  /\ opening = credits
  /\ log = <<>>
  /\ pc = [r \in Reqs |-> "idle"]
  /\ op = [r \in Reqs |-> "none"]
  /\ uid = [r \in Reqs |-> NoAccount]
  /\ amt = [r \in Reqs |-> 0]
  /\ ttype = [r \in Reqs |-> "none"]
  /\ seen = [r \in Reqs |-> 0]
  /\ result = [r \in Reqs |-> "none"]
  /\ records = <<>>
  /\ stats = [u \in TwoUsers |-> <<>>]
  /\ nrec = [r \in Reqs |-> 0]
  /\ got = [r \in Reqs |-> <<>>]
  /\ created = <<>>
  /\ clock = 0
  /\ reader = NoReader

\* The amounts of the calls made in the database of two users.
TwoUserAmounts == {1, 2}

NextTwoUsers ==
  \/ \E r \in Reqs, u \in TwoUsers, a \in TwoUserAmounts : DeductCheck(r, u, a)
  \/ \E r \in Reqs : DeductLoad(r)
  \/ \E r \in Reqs : DeductCommit(r)
  \/ \E r \in Reqs, u \in TwoUsers, a \in TwoUserAmounts :
       AddLoad(r, u, a, "purchase")
  \/ \E r \in Reqs : AddCommit(r)
  \/ \E r \in Reqs, u \in TwoUsers :
       CreateProgressRecord(r, u, S40, S35, S42)
  \/ \E r \in Reqs : ReadProgress(r)
  \/ \E r \in Reqs : ReadStats(r)
  \/ \E r \in Reqs : StatsCommit(r)

SpecTwoUsers == InitTwoUsers /\ [][NextTwoUsers]_vars

\* C29: a step of a deduct_credits, add_credits or update_user_stats call
\* (and of the recording that calls it) for one user leaves the balance,
\* the transactions, the ProgressRecords and the UserStats of every other
\* user unchanged.
C29_OtherUserUntouched ==
  [][\A r \in Reqs :
       pc'[r] # pc[r]
       => \A b \in TwoUsers \ {uid'[r]} :
            /\ credits'[b] = credits[b]
            /\ UserLog(b)' = UserLog(b)
            /\ History(b)' = History(b)
            /\ stats'[b] = stats[b]]_vars

\* One user has been debited and has a transaction; the other user has a
\* record and a UserStats row computed from it.
C29_Witness ==
  \E r, q \in Reqs :
    /\ op[r] = "deduct" /\ uid[r] = "u1" /\ result[r] = "True"
    /\ op[q] = "record" /\ uid[q] = "u2" /\ result[q] = "ok"
    /\ UserLog("u1") # <<>> /\ UserLog("u2") = <<>>
    /\ stats["u2"] # <<>> /\ stats["u1"] = <<>>
    /\ credits["u2"] = opening["u2"]

====
